---- MODULE Spec2Model ----
(***************************************************************************)
(* jtm-toolset: the OpenCV helpers (create_blank_image, Image_Concatenate) *)
(* of src/jtm_opencv_helpers.py and the stopwatch (Performance_Monitor) of *)
(* src/src/python/jtm_python_helpers.py.                                   *)
(*                                                                         *)
(* A buffer (numpy.ndarray of uint8) is a record                           *)
(*   [shape |-> <<n1, ..., nk>>, data |-> [Indices(shape) -> 0..255]]      *)
(* with 0-based index tuples, as numpy has them.  shape[1] is numpy's      *)
(* shape[0] (the rows of an image), shape[2] is numpy's shape[1] (the      *)
(* columns), shape[3] is numpy's shape[2] (the channels).                  *)
(***************************************************************************)
EXTENDS Integers, Sequences, FiniteSets, TLC

VARIABLES images_list, result, probe, clock, start_time, stop_time, ret

vars == <<images_list, result, probe, clock, start_time, stop_time, ret>>

(***************************************************************************)
(* Bounds of the model.                                                    *)
(***************************************************************************)
\* largest width and height handed to create_blank_image
MaxDim == 2
\* longest images_list
MaxList == 2
\* largest axis size of a buffer handed to the dimension accessors
MaxAxis == 8
\* last value the performance counter takes
MaxClock == 5
\* largest advance of the performance counter between two readings
MaxTick == 2
\* largest number of decimal places asked of get_readable_time
MaxPrecision == 2

\* Python's None where an int is expected (stop_time, resize's width/height,
\* precision); every int the program stores there is >= 0
None == -1

\* a color argument: an int (len(color) raises TypeError) or a tuple
Scalar(c) == [isTuple |-> FALSE, comps |-> <<c>>]
Tuple3(c0, c1, c2) == [isTuple |-> TRUE, comps |-> <<c0, c1, c2>>]
NoColor == [isTuple |-> FALSE, comps |-> <<>>]

\* the colors the model's callers use
Colors == {Scalar(0), Scalar(128), Tuple3(255, 128, 0)}

Min2(a, b) == IF a <= b THEN a ELSE b

\* Python's min(...) and max(...) over a non-empty collection
PyMin(S) == CHOOSE x \in S : \A y \in S : x <= y
PyMax(S) == CHOOSE x \in S : \A y \in S : x >= y

(***************************************************************************)
(* numpy buffers                                                           *)
(***************************************************************************)
\* the index tuples of an array of the given shape (up to three axes)
Indices(shape) ==
    CASE Len(shape) = 0 -> {<<>>}
      [] Len(shape) = 1 -> {<<i>> : i \in 0..(shape[1] - 1)}
      [] Len(shape) = 2 -> (0..(shape[1] - 1)) \X (0..(shape[2] - 1))
      [] Len(shape) = 3 ->
            (0..(shape[1] - 1)) \X (0..(shape[2] - 1)) \X (0..(shape[3] - 1))

\* np.zeros(shape, np.uint8)
np_zeros(shape) == [shape |-> shape, data |-> [ix \in Indices(shape) |-> 0]]

\* can an array of shape vs be assigned to a target of shape ts
\* (numpy broadcasting: trailing axes aligned, an axis of size 1 stretches,
\* surplus leading axes of the value must have size 1)
Broadcastable(vs, ts) ==
    LET m == Len(vs)
        n == Len(ts)
    IN  \A k \in 1..m :
            IF k + n - m >= 1
            THEN vs[k] = 1 \/ vs[k] = ts[k + n - m]
            ELSE vs[k] = 1

\* the index of the value's element that lands on index t of the target
BroadcastIndex(vs, t) ==
    LET m == Len(vs)
        n == Len(t)
    IN  [k \in 1..m |->
            IF k + n - m >= 1 /\ vs[k] # 1 THEN t[k + n - m] ELSE 0]

\* target[0:r, 0:c] = value for a target of two or more axes: the slice is
\* clipped to the target, the value is broadcast to the slice, and numpy
\* raises ValueError when it cannot be
SliceShape(target, r, c) ==
    <<Min2(r, target.shape[1]), Min2(c, target.shape[2])>>
        \o SubSeq(target.shape, 3, Len(target.shape))

CanAssignSlice(target, r, c, value) ==
    Broadcastable(value.shape, SliceShape(target, r, c))

AssignSlice(target, r, c, value) ==
    [shape |-> target.shape,
     data |-> [ix \in Indices(target.shape) |->
                 IF ix[1] < r /\ ix[2] < c
                 THEN value.data[BroadcastIndex(value.shape, ix)]
                 ELSE target.data[ix]]]

(***************************************************************************)
(* create_blank_image                                                      *)
(***************************************************************************)
\* image[:] = color : a tuple is broadcast along the last axis
FillWith(image, color) ==
    [shape |-> image.shape,
     data |-> [ix \in Indices(image.shape) |->
                 IF color.isTuple THEN color.comps[ix[Len(ix)] + 1]
                 ELSE color.comps[1]]]

create_blank_image_swapped(width, height, color) ==
    IF color.isTuple
    THEN FillWith(np_zeros(<<width, height, Len(color.comps)>>), color)
    ELSE FillWith(np_zeros(<<width, height>>), color)

create_blank_image(width, height, color) ==
    IF color.isTuple
    THEN FillWith(np_zeros(<<height, width, Len(color.comps)>>), color)
    ELSE FillWith(np_zeros(<<height, width>>), color)

(***************************************************************************)
(* Dimension accessors                                                     *)
(***************************************************************************)
matrix_width(matrix) ==
    IF Len(matrix.shape) >= 1 THEN matrix.shape[1] ELSE 0

matrix_height_zero(matrix) ==
    IF Len(matrix.shape) >= 2 THEN matrix.shape[2] ELSE 0

matrix_height(matrix) ==
    IF Len(matrix.shape) >= 2 THEN matrix.shape[2] ELSE 1

matrix_depth(matrix) ==
    IF Len(matrix.shape) >= 3 THEN matrix.shape[3] ELSE 0

(***************************************************************************)
(* The library primitives the concatenation operations call                *)
(***************************************************************************)
\* what a call does: return one buffer, return a list of buffers, or raise
Returned(buf) == [kind |-> "buffer", bufs |-> <<buf>>, exc |-> "none"]
ReturnedList(bufs) == [kind |-> "list", bufs |-> bufs, exc |-> "none"]
Raised(exc) == [kind |-> "error", bufs |-> <<>>, exc |-> exc]

\* im[:, :k] and im[:k, :] (k > 0) of a buffer with two or more axes
SliceCols(im, k) ==
    LET shape == <<im.shape[1], Min2(im.shape[2], k)>>
                     \o SubSeq(im.shape, 3, Len(im.shape))
    IN  [shape |-> shape, data |-> [ix \in Indices(shape) |-> im.data[ix]]]

SliceRows(im, k) ==
    LET shape == <<Min2(im.shape[1], k), im.shape[2]>>
                     \o SubSeq(im.shape, 3, Len(im.shape))
    IN  [shape |-> shape, data |-> [ix \in Indices(shape) |-> im.data[ix]]]

\* int(a * (num / float(den))): the double product truncates to the exact
\* quotient for all a, num, den <= 12, the sizes met here
IntScale(a, num, den) == (a * num) \div den

\* the (width, height) imutils.resize hands to cv2.resize; <<None, None>>
\* when it returns the image as it is
ResizeDim(image, width, height) ==
    LET h == image.shape[1]
        w == image.shape[2]
    IN  IF width = None /\ height = None THEN <<None, None>>
        ELSE IF width = None THEN <<IntScale(w, height, h), height>>
        ELSE <<width, IntScale(h, width, w)>>

ResizeFails_never(image, width, height) == FALSE

\* cv2.resize raises cv2.error for an empty destination size
ResizeFails(image, width, height) ==
    LET dim == ResizeDim(image, width, height)
    IN  dim # <<None, None>> /\ (dim[1] <= 0 \/ dim[2] <= 0)

\* cv2.resize(image, dim): a buffer of dim[2] rows and dim[1] columns with
\* the channels of the source.  The resampling filter belongs to the
\* library; every buffer resized here is a crop of a uniformly filled one,
\* where each filter yields the fill, so the source element under the
\* destination element is taken.
cv2_resize(image, dim) ==
    LET shape == <<dim[2], dim[1]>> \o SubSeq(image.shape, 3, Len(image.shape))
    IN  [shape |-> shape,
         data |-> [ix \in Indices(shape) |->
                     image.data[[k \in 1..Len(shape) |->
                         IF k = 1 THEN (ix[1] * image.shape[1]) \div dim[2]
                         ELSE IF k = 2 THEN (ix[2] * image.shape[2]) \div dim[1]
                         ELSE ix[k]]]]]

imutils_resize(image, width, height) ==
    IF ResizeDim(image, width, height) = <<None, None>> THEN image
    ELSE cv2_resize(image, ResizeDim(image, width, height))

\* the sum of axis ax over the first n buffers of a list
RECURSIVE AxisSum(_, _, _)
AxisSum(bufs, ax, n) ==
    IF n = 0 THEN 0 ELSE AxisSum(bufs, ax, n - 1) + bufs[n].shape[ax]

\* the buffer of the list that covers position p along axis ax of the join
Piece(bufs, ax, p) ==
    CHOOSE i \in 1..Len(bufs) :
        AxisSum(bufs, ax, i - 1) <= p /\ p < AxisSum(bufs, ax, i)

\* cv2.hconcat / cv2.vconcat of a non-empty list: cv2.error unless all
\* buffers agree on the other axis and on the channels
ConcatFails(bufs, ax) ==
    \E i \in 1..Len(bufs) :
        \/ Len(bufs[i].shape) # Len(bufs[1].shape)
        \/ \E k \in 1..Len(bufs[i].shape) :
              k # ax /\ k <= Len(bufs[1].shape)
                     /\ bufs[i].shape[k] # bufs[1].shape[k]

Concat(bufs, ax) ==
    LET shape == [k \in 1..Len(bufs[1].shape) |->
                     IF k = ax THEN AxisSum(bufs, ax, Len(bufs))
                     ELSE bufs[1].shape[k]]
    IN  [shape |-> shape,
         data |-> [ix \in Indices(shape) |->
                     LET i == Piece(bufs, ax, ix[ax])
                     IN  bufs[i].data[[k \in 1..Len(shape) |->
                             IF k = ax
                             THEN ix[k] - AxisSum(bufs, ax, i - 1)
                             ELSE ix[k]]]]]

cv2_hconcat(bufs) ==
    IF ConcatFails(bufs, 2) THEN Raised("cv2.error")
    ELSE Returned(Concat(bufs, 2))

cv2_vconcat(bufs) ==
    IF ConcatFails(bufs, 1) THEN Raised("cv2.error")
    ELSE Returned(Concat(bufs, 1))

\* [imutils.resize(im, width, height) for im in images], then the join
ResizeAndJoin(images, width, height, horizontal) ==
    IF \E i \in 1..Len(images) : ResizeFails(images[i], width, height)
    THEN Raised("cv2.error")
    ELSE LET resized_list == [i \in 1..Len(images) |->
                                 imutils_resize(images[i], width, height)]
         IN  IF horizontal THEN cv2_hconcat(resized_list)
             ELSE cv2_vconcat(resized_list)

\* the measurements min(...) and max(...) reduce over
Heights(images) == {matrix_height(images[i]) : i \in 1..Len(images)}
Widths(images) == {matrix_width(images[i]) : i \in 1..Len(images)}

(***************************************************************************)
(* Image_Concatenate                                                       *)
(***************************************************************************)
horizontal_and_resize_down(images) ==
    IF images = <<>> THEN Raised("ValueError")
    ELSE LET h_min == PyMin(Heights(images))
         IN  ResizeAndJoin(images, None, h_min, TRUE)

vertical_and_resize_down(images) ==
    IF images = <<>> THEN Raised("ValueError")
    ELSE LET w_min == PyMin(Widths(images))
         IN  ResizeAndJoin(images, w_min, None, FALSE)

horizontal_and_resize_up(images) ==
    IF images = <<>> THEN Raised("ValueError")
    ELSE LET h_max == PyMax(Heights(images))
         IN  ResizeAndJoin(images, None, h_max, TRUE)

vertical_and_resize_up(images) ==
    IF images = <<>> THEN Raised("ValueError")
    ELSE LET w_max == PyMax(Widths(images))
         IN  ResizeAndJoin(images, w_max, None, FALSE)

horizontal_and_cut_larger(images) ==
    IF images = <<>> THEN Raised("ValueError")
    ELSE LET h_min == PyMin(Heights(images))
             chopped_list == [i \in 1..Len(images) |->
                                 SliceCols(images[i], h_min)]
         IN  horizontal_and_resize_down(chopped_list)

vertical_and_cut_larger(images) ==
    IF images = <<>> THEN Raised("ValueError")
    ELSE LET w_min == PyMin(Widths(images))
             chopped_list == [i \in 1..Len(images) |->
                                 SliceRows(images[i], w_min)]
         IN  vertical_and_resize_down(chopped_list)

\* the copy of the fill loop: blank[0:im.shape[0], 0:im.shape[1]] = im
Padded(im, blank) == AssignSlice(blank, im.shape[1], im.shape[2], im)

\* The fill loop after n of its iterations, over the buffers it can reach:
\* inputs are the caller's images, padded the canvases appended so far,
\* raised whether the copy raised ValueError (which ends the loop).  blanks[i]
\* is the canvas create_blank_image allocates in iteration i; the copy
\* writes into that new canvas and reads the image.
RECURSIVE FillLoop_writes_image(_, _, _)
FillLoop_writes_image(images, blanks, n) ==
    IF n = 0 THEN [inputs |-> images, padded |-> <<>>, raised |-> FALSE]
    ELSE LET m == FillLoop_writes_image(images, blanks, n - 1)
             im == m.inputs[n]
         IN  IF m.raised THEN m
             ELSE IF ~CanAssignSlice(im, blanks[n].shape[1],
                                     blanks[n].shape[2], blanks[n])
             THEN [m EXCEPT !.raised = TRUE]
             ELSE [m EXCEPT
                     !.inputs[n] = AssignSlice(im, blanks[n].shape[1],
                                       blanks[n].shape[2], blanks[n]),
                     !.padded = Append(@, blanks[n])]

RECURSIVE FillLoop(_, _, _)
FillLoop(images, blanks, n) ==
    IF n = 0 THEN [inputs |-> images, padded |-> <<>>, raised |-> FALSE]
    ELSE LET m == FillLoop(images, blanks, n - 1)
             im == m.inputs[n]
         IN  IF m.raised THEN m
             ELSE IF ~CanAssignSlice(blanks[n], im.shape[1], im.shape[2], im)
             THEN [m EXCEPT !.raised = TRUE]
             ELSE [m EXCEPT !.padded = Append(@, Padded(im, blanks[n]))]

\* the canvases of the two fill operations, one per image
HorizontalBlanks(images, empty_color) ==
    LET h_max == PyMax(Heights(images))
    IN  [i \in 1..Len(images) |->
            create_blank_image(matrix_width(images[i]), h_max, empty_color)]

VerticalBlanks(images, empty_color) ==
    LET w_max == PyMax(Widths(images))
    IN  [i \in 1..Len(images) |->
            create_blank_image(w_max, matrix_height(images[i]), empty_color)]

\* what the fill loop leaves: return padded, or the ValueError of the copy
FillOutcome(m) ==
    IF m.raised THEN Raised("ValueError") ELSE ReturnedList(m.padded)

horizontal_and_fill_empty_lazy(images, empty_color) ==
    IF images = <<>> THEN ReturnedList(<<>>)
    ELSE FillOutcome(FillLoop(images, HorizontalBlanks(images, empty_color),
                              Len(images)))

horizontal_and_fill_empty(images, empty_color) ==
    IF images = <<>> THEN Raised("ValueError")
    ELSE FillOutcome(FillLoop(images, HorizontalBlanks(images, empty_color),
                              Len(images)))

vertical_and_fill_empty(images, empty_color) ==
    IF images = <<>> THEN Raised("ValueError")
    ELSE FillOutcome(FillLoop(images, VerticalBlanks(images, empty_color),
                              Len(images)))

\* the caller's images after a fill operation: max(...) raises before the
\* loop on an empty list; otherwise what the loop leaves of them
horizontal_and_fill_empty_inputs(images, empty_color) ==
    IF images = <<>> THEN images
    ELSE FillLoop(images, HorizontalBlanks(images, empty_color),
                  Len(images)).inputs

vertical_and_fill_empty_inputs(images, empty_color) ==
    IF images = <<>> THEN images
    ELSE FillLoop(images, VerticalBlanks(images, empty_color),
                  Len(images)).inputs

(***************************************************************************)
(* Callers of the image helpers.  images_list is the list a caller has     *)
(* built from create_blank_image; result is the last call and what it did. *)
(***************************************************************************)
NoResult ==
    [op |-> "none", w |-> 0, h |-> 0, color |-> NoColor,
     kind |-> "none", bufs |-> <<>>, exc |-> "none"]

Call(op, color, outcome) ==
    [op |-> op, w |-> 0, h |-> 0, color |-> color,
     kind |-> outcome.kind, bufs |-> outcome.bufs, exc |-> outcome.exc]

\* im = create_blank_image(w, h, color); images_list.append(im)
CreateBlank ==
    /\ Len(images_list) < MaxList
    /\ \E w \in 1..MaxDim, h \in 1..MaxDim, color \in Colors :
          LET im == create_blank_image(w, h, color)
          IN  /\ images_list' = Append(images_list, im)
              /\ result' = [op |-> "create_blank_image", w |-> w, h |-> h,
                            color |-> color, kind |-> "buffer",
                            bufs |-> <<im>>, exc |-> "none"]
    /\ UNCHANGED <<probe, clock, start_time, stop_time, ret>>

HorizontalAndCutLarger ==
    /\ result' = Call("horizontal_and_cut_larger", NoColor,
                      horizontal_and_cut_larger(images_list))
    /\ UNCHANGED <<images_list, probe, clock, start_time, stop_time, ret>>

VerticalAndCutLarger ==
    /\ result' = Call("vertical_and_cut_larger", NoColor,
                      vertical_and_cut_larger(images_list))
    /\ UNCHANGED <<images_list, probe, clock, start_time, stop_time, ret>>

HorizontalAndFillEmpty ==
    /\ \E empty_color \in Colors :
          /\ result' = Call("horizontal_and_fill_empty", empty_color,
                           horizontal_and_fill_empty(images_list, empty_color))
          /\ images_list' =
                horizontal_and_fill_empty_inputs(images_list, empty_color)
    /\ UNCHANGED <<probe, clock, start_time, stop_time, ret>>

VerticalAndFillEmpty ==
    /\ \E empty_color \in Colors :
          /\ result' = Call("vertical_and_fill_empty", empty_color,
                           vertical_and_fill_empty(images_list, empty_color))
          /\ images_list' =
                vertical_and_fill_empty_inputs(images_list, empty_color)
    /\ UNCHANGED <<probe, clock, start_time, stop_time, ret>>

HorizontalAndResizeDown ==
    /\ result' = Call("horizontal_and_resize_down", NoColor,
                      horizontal_and_resize_down(images_list))
    /\ UNCHANGED <<images_list, probe, clock, start_time, stop_time, ret>>

VerticalAndResizeDown ==
    /\ result' = Call("vertical_and_resize_down", NoColor,
                      vertical_and_resize_down(images_list))
    /\ UNCHANGED <<images_list, probe, clock, start_time, stop_time, ret>>

HorizontalAndResizeUp ==
    /\ result' = Call("horizontal_and_resize_up", NoColor,
                      horizontal_and_resize_up(images_list))
    /\ UNCHANGED <<images_list, probe, clock, start_time, stop_time, ret>>

VerticalAndResizeUp ==
    /\ result' = Call("vertical_and_resize_up", NoColor,
                      vertical_and_resize_up(images_list))
    /\ UNCHANGED <<images_list, probe, clock, start_time, stop_time, ret>>

(***************************************************************************)
(* The dimension accessors on buffers of zero to three axes                *)
(***************************************************************************)
NoProbe == [shape |-> <<>>, width |-> None, height |-> None, depth |-> None]

Shapes == UNION {[1..n -> 0..MaxAxis] : n \in 0..3}

MeasureMatrix ==
    /\ \E shape \in Shapes :
          LET matrix == np_zeros(shape)
          IN  probe' = [shape |-> matrix.shape,
                        width |-> matrix_width(matrix),
                        height |-> matrix_height(matrix),
                        depth |-> matrix_depth(matrix)]
    /\ UNCHANGED <<images_list, result, clock, start_time, stop_time, ret>>

(***************************************************************************)
(* Performance_Monitor                                                     *)
(***************************************************************************)
\* the unit strings callers pass: the five of get_time's cases and others
KnownUnits ==
    {"minutes", "seconds", "milliseconds", "microseconds", "nanoseconds"}
OtherUnits == {"parsecs", "hours", "Seconds", ""}
UnitStrings == KnownUnits \cup OtherUnits

\* cases[units](ns): ns itself (an int) for nanoseconds, otherwise the
\* float ns / (mant * 10^exp10)
Cases(units, ns) ==
    CASE units = "minutes" ->
            [kind |-> "float", ns |-> ns, mant |-> 6, exp10 |-> 10]
      [] units = "seconds" ->
            [kind |-> "float", ns |-> ns, mant |-> 1, exp10 |-> 9]
      [] units = "milliseconds" ->
            [kind |-> "float", ns |-> ns, mant |-> 1, exp10 |-> 6]
      [] units = "microseconds" ->
            [kind |-> "float", ns |-> ns, mant |-> 1, exp10 |-> 3]
      [] units = "nanoseconds" ->
            [kind |-> "int", ns |-> ns, mant |-> 1, exp10 |-> 0]

\* what a method call does: the value returned or the exception raised
Value(v, precision, text) ==
    [kind |-> v.kind, ns |-> v.ns, mant |-> v.mant, exp10 |-> v.exp10,
     precision |-> precision, text |-> text]

NoValue ==
    [kind |-> "none", ns |-> 0, mant |-> 1, exp10 |-> 0,
     precision |-> None, text |-> <<>>]

\* raise ValueError("Invalid units type requested (" + units + ").")
ValueError(units) ==
    [kind |-> "ValueError", ns |-> 0, mant |-> 1, exp10 |-> 0,
     precision |-> None,
     text |-> <<"Invalid units type requested (", units, ").">>]

\* not self.stop_time
NotSet(t) == t = None \/ t = 0

\* a reading of time.perf_counter_ns(): monotonic, at most MaxTick later
Readings == clock..Min2(clock + MaxTick, MaxClock)

\* get_time(units) with stop time sp, where now is the counter read by the
\* self.stop() it calls when the stop time is not set; stop's own
\* get_time("nanoseconds") then finds the stop time set and its value is
\* dropped
get_time_any_unit(st, sp, now, units) ==
    LET sp1 == IF NotSet(sp) THEN now ELSE sp
    IN  [stop_time |-> sp1,
         out |-> IF units \in KnownUnits
                 THEN Value(Cases(units, sp1 - st), None, <<>>)
                 ELSE Value(Cases("nanoseconds", sp1 - st), None, <<>>)]

get_time_restamps(st, sp, now, units) ==
    [stop_time |-> now,
     out |-> IF units \in KnownUnits
             THEN Value(Cases(units, now - st), None, <<>>)
             ELSE ValueError(units)]

get_time_validates_first(st, sp, now, units) ==
    LET sp1 == IF NotSet(sp) THEN now ELSE sp
    IN  IF units \in KnownUnits
        THEN [stop_time |-> sp1,
              out |-> Value(Cases(units, sp1 - st), None, <<>>)]
        ELSE [stop_time |-> sp, out |-> ValueError(units)]

get_time(st, sp, now, units) ==
    LET sp1 == IF NotSet(sp) THEN now ELSE sp
    IN  [stop_time |-> sp1,
         out |-> IF units \in KnownUnits
                 THEN Value(Cases(units, sp1 - st), None, <<>>)
                 ELSE ValueError(units)]

\* get_readable_time: the number (rounded to precision when given) as text,
\* then " " + units
get_readable_time(st, sp, now, units, precision) ==
    LET t == get_time(st, sp, now, units)
    IN  [stop_time |-> t.stop_time,
         out |-> IF t.out.kind = "ValueError" THEN t.out
                 ELSE [kind |-> "str", ns |-> t.out.ns, mant |-> t.out.mant,
                       exp10 |-> t.out.exp10, precision |-> precision,
                       text |-> <<" ", units>>]]

NoRet ==
    [op |-> "none", units |-> "", was_stopped |-> FALSE, out |-> NoValue]

Start ==
    /\ \E now \in Readings :
          /\ clock' = now
          /\ start_time' = now
          /\ stop_time' = None
    /\ ret' = [op |-> "start", units |-> "",
               was_stopped |-> ~NotSet(stop_time), out |-> NoValue]
    /\ UNCHANGED <<images_list, result, probe>>

QuietStop ==
    /\ \E now \in Readings :
          /\ clock' = now
          /\ stop_time' = now
    /\ ret' = [op |-> "quiet_stop", units |-> "",
               was_stopped |-> ~NotSet(stop_time), out |-> NoValue]
    /\ UNCHANGED <<images_list, result, probe, start_time>>

\* self.quiet_stop(); return self.get_time(units)
Stop ==
    /\ \E now \in Readings, units \in UnitStrings :
          LET t == get_time(start_time, now, now, units)
          IN  /\ clock' = now
              /\ stop_time' = t.stop_time
              /\ ret' = [op |-> "stop", units |-> units,
                         was_stopped |-> ~NotSet(stop_time), out |-> t.out]
    /\ UNCHANGED <<images_list, result, probe, start_time>>

GetTime ==
    /\ \E now \in Readings, units \in UnitStrings :
          LET t == get_time(start_time, stop_time, now, units)
          IN  /\ clock' = IF NotSet(stop_time) THEN now ELSE clock
              /\ stop_time' = t.stop_time
              /\ ret' = [op |-> "get_time", units |-> units,
                         was_stopped |-> ~NotSet(stop_time), out |-> t.out]
    /\ UNCHANGED <<images_list, result, probe, start_time>>

GetReadableTime ==
    /\ \E now \in Readings, units \in UnitStrings,
          precision \in {None} \cup 0..MaxPrecision :
          LET t == get_readable_time(start_time, stop_time, now, units,
                                     precision)
          IN  /\ clock' = IF NotSet(stop_time) THEN now ELSE clock
              /\ stop_time' = t.stop_time
              /\ ret' = [op |-> "get_readable_time", units |-> units,
                         was_stopped |-> ~NotSet(stop_time), out |-> t.out]
    /\ UNCHANGED <<images_list, result, probe, start_time>>

(***************************************************************************)
(* Specifications                                                          *)
(***************************************************************************)
\* no image made, nothing measured, a Performance_Monitor just constructed
\* (__init__ calls start())
Init ==
    /\ images_list = <<>>
    /\ result = NoResult
    /\ probe = NoProbe
    /\ clock = 1
    /\ start_time = clock
    /\ stop_time = None
    /\ ret = NoRet

Next ==
    \/ CreateBlank
    \/ HorizontalAndCutLarger
    \/ VerticalAndCutLarger
    \/ HorizontalAndFillEmpty
    \/ VerticalAndFillEmpty
    \/ HorizontalAndResizeDown
    \/ VerticalAndResizeDown
    \/ HorizontalAndResizeUp
    \/ VerticalAndResizeUp

Spec == Init /\ [][Next]_vars

NextAccessors == MeasureMatrix

SpecAccessors == Init /\ [][NextAccessors]_vars

NextMonitor ==
    \/ Start
    \/ QuietStop
    \/ Stop
    \/ GetTime
    \/ GetReadableTime

SpecMonitor == Init /\ [][NextMonitor]_vars

(***************************************************************************)
(* Properties.  An image made by create_blank_image(w, h, c) has width w   *)
(* and height h: height is the first axis of its buffer, width the second. *)
(***************************************************************************)
Height(buf) == buf.shape[1]
Width(buf) == buf.shape[2]

\* the sum of the widths (heights) of the first n images of a list
RECURSIVE WidthSum(_, _)
WidthSum(images, n) ==
    IF n = 0 THEN 0 ELSE WidthSum(images, n - 1) + Width(images[n])

RECURSIVE HeightSum(_, _)
HeightSum(images, n) ==
    IF n = 0 THEN 0 ELSE HeightSum(images, n - 1) + Height(images[n])

ListIndex == 1..Len(images_list)
MinHeight == PyMin({Height(images_list[i]) : i \in ListIndex})
MaxHeight == PyMax({Height(images_list[i]) : i \in ListIndex})
MinWidth == PyMin({Width(images_list[i]) : i \in ListIndex})
MaxWidth == PyMax({Width(images_list[i]) : i \in ListIndex})

\* a non-empty list of single-channel (three-channel) buffers
AllSingleChannel ==
    /\ images_list # <<>>
    /\ \A i \in ListIndex : Len(images_list[i].shape) = 2

AllThreeChannel ==
    /\ images_list # <<>>
    /\ \A i \in ListIndex :
          Len(images_list[i].shape) = 3 /\ images_list[i].shape[3] = 3

\* a non-empty list of buffers of one channel depth, and a color of it
EqualDepth ==
    /\ images_list # <<>>
    /\ \A i \in ListIndex :
          Len(images_list[i].shape) = Len(images_list[1].shape)

ColorOfDepth(color) ==
    /\ EqualDepth
    /\ color.isTuple <=> Len(images_list[1].shape) = 3

\* the value a fill color gives the element at index ix
ColorAt(color, ix) ==
    IF color.isTuple THEN color.comps[ix[Len(ix)] + 1] ELSE color.comps[1]

\* C1: create_blank_image(w, h, c) with an intensity c returns a buffer of
\* shape (h, w) whose every element is c, and with a tuple (c0, c1, c2) a
\* buffer of shape (h, w, 3) whose every element is (c0, c1, c2).
C1_BlankImageShapeAndFill ==
    result.op = "create_blank_image" =>
        LET im == result.bufs[1]
            rows == 0..(result.h - 1)
            cols == 0..(result.w - 1)
        IN  IF result.color.isTuple
            THEN /\ im.shape = <<result.h, result.w, 3>>
                 /\ DOMAIN im.data = rows \X cols \X (0..2)
                 /\ \A i \in rows, j \in cols, k \in 0..2 :
                       im.data[<<i, j, k>>] = result.color.comps[k + 1]
            ELSE /\ im.shape = <<result.h, result.w>>
                 /\ DOMAIN im.data = rows \X cols
                 /\ \A i \in rows, j \in cols :
                       im.data[<<i, j>>] = result.color.comps[1]

C1_Witness ==
    /\ result.op = "create_blank_image"
    /\ result.w = 2 /\ result.h = 1
    /\ result.color = Tuple3(255, 128, 0)
    /\ result.bufs[1].shape = <<1, 2, 3>>
    /\ result.bufs[1].data[<<0, 1, 1>>] = 128

\* C2: horizontal_and_cut_larger of a non-empty list of single-channel
\* buffers returns one buffer whose height is the least height of the list
\* and whose width is the sum of the widths, and the columns contributed by
\* input i hold input i's values.
C2_HorizontalCutClaim ==
    (result.op = "horizontal_and_cut_larger" /\ AllSingleChannel) =>
        /\ result.kind = "buffer"
        /\ Height(result.bufs[1]) = MinHeight
        /\ Width(result.bufs[1]) = WidthSum(images_list, Len(images_list))
        /\ \A i \in ListIndex :
              \A r \in 0..(MinHeight - 1),
                 c \in 0..(Width(images_list[i]) - 1) :
                 result.bufs[1].data[<<r, WidthSum(images_list, i - 1) + c>>]
                     = images_list[i].data[<<r, c>>]

\* C3: vertical_and_cut_larger of a non-empty list of single-channel
\* buffers returns one buffer whose width is the least width of the list
\* (the left columns of each input) and whose height is the sum of the
\* heights, the inputs stacked top to bottom in input order.
C3_VerticalCutClaim ==
    (result.op = "vertical_and_cut_larger" /\ AllSingleChannel) =>
        /\ result.kind = "buffer"
        /\ Width(result.bufs[1]) = MinWidth
        /\ Height(result.bufs[1]) = HeightSum(images_list, Len(images_list))
        /\ \A i \in ListIndex :
              \A r \in 0..(Height(images_list[i]) - 1),
                 c \in 0..(MinWidth - 1) :
                 result.bufs[1].data[<<HeightSum(images_list, i - 1) + r, c>>]
                     = images_list[i].data[<<r, c>>]

\* canvas holds input im in its top-left region and the fill elsewhere
PaddedWith(canvas, im, color) ==
    /\ Len(canvas.shape) = Len(im.shape)
    /\ \A ix \in Indices(canvas.shape) :
          IF ix[1] < Height(im) /\ ix[2] < Width(im)
          THEN ix \in DOMAIN im.data /\ canvas.data[ix] = im.data[ix]
          ELSE canvas.data[ix] = ColorAt(color, ix)

\* C4: horizontal_and_fill_empty(list, fill) on a non-empty list of equal
\* channel depth returns a list of as many canvases, each as high as the
\* highest input, canvas i holding input i in [0:orig_h, 0:orig_w] and
\* fill everywhere else.
C4_HorizontalFillClaim ==
    (result.op = "horizontal_and_fill_empty" /\ ColorOfDepth(result.color)) =>
        /\ result.kind = "list"
        /\ Len(result.bufs) = Len(images_list)
        /\ \A i \in ListIndex :
              /\ Height(result.bufs[i]) = MaxHeight
              /\ PaddedWith(result.bufs[i], images_list[i], result.color)

\* C5: vertical_and_fill_empty(list, fill) on a non-empty list of equal
\* channel depth returns a list of as many canvases, each as wide as the
\* widest input and as high as its own input, canvas i holding input i in
\* [0:orig_h, 0:orig_w] and fill everywhere else.
C5_VerticalFillClaim ==
    (result.op = "vertical_and_fill_empty" /\ ColorOfDepth(result.color)) =>
        /\ result.kind = "list"
        /\ Len(result.bufs) = Len(images_list)
        /\ \A i \in ListIndex :
              /\ Width(result.bufs[i]) = MaxWidth
              /\ Height(result.bufs[i]) = Height(images_list[i])
              /\ PaddedWith(result.bufs[i], images_list[i], result.color)

\* C6: the fill operations return one combined three-axis image:
\* horizontal_and_fill_empty one as high as the highest input and as wide
\* as the sum of the widths, input i in its own columns and fill in the
\* void under it; vertical_and_fill_empty one as wide as the widest input
\* and as high as the sum of the heights, input i in its own rows and fill
\* in the void to its right.
C6_FillJoinsClaim ==
    /\ (result.op = "horizontal_and_fill_empty" /\ AllThreeChannel
            /\ result.color.isTuple) =>
          /\ result.kind = "buffer"
          /\ result.bufs[1].shape =
                <<MaxHeight, WidthSum(images_list, Len(images_list)), 3>>
          /\ \A i \in ListIndex :
                \A r \in 0..(MaxHeight - 1),
                   c \in 0..(Width(images_list[i]) - 1), k \in 0..2 :
                   result.bufs[1].data[
                       <<r, WidthSum(images_list, i - 1) + c, k>>]
                     = IF r < Height(images_list[i])
                       THEN images_list[i].data[<<r, c, k>>]
                       ELSE result.color.comps[k + 1]
    /\ (result.op = "vertical_and_fill_empty" /\ AllThreeChannel
            /\ result.color.isTuple) =>
          /\ result.kind = "buffer"
          /\ result.bufs[1].shape =
                <<HeightSum(images_list, Len(images_list)), MaxWidth, 3>>
          /\ \A i \in ListIndex :
                \A r \in 0..(Height(images_list[i]) - 1),
                   c \in 0..(MaxWidth - 1), k \in 0..2 :
                   result.bufs[1].data[
                       <<HeightSum(images_list, i - 1) + r, c, k>>]
                     = IF c < Width(images_list[i])
                       THEN images_list[i].data[<<r, c, k>>]
                       ELSE result.color.comps[k + 1]

\* the width of an image resized to height target, aspect ratio kept
ResizedWidth(im, target) == (Width(im) * target) \div Height(im)

RECURSIVE ResizedWidthSum(_, _, _)
ResizedWidthSum(images, target, n) ==
    IF n = 0 THEN 0
    ELSE ResizedWidthSum(images, target, n - 1)
             + ResizedWidth(images[n], target)

\* C7: horizontal_and_resize_down of a non-empty list of equal channel
\* depth returns one buffer: every input resized to the least height of
\* the list and joined side by side, so its height is that least height,
\* its width the sum of the resized widths, and the join does not fail.
C7_HorizontalResizeDownClaim ==
    (result.op = "horizontal_and_resize_down" /\ EqualDepth) =>
        /\ result.kind = "buffer"
        /\ Height(result.bufs[1]) = MinHeight
        /\ Width(result.bufs[1]) =
              ResizedWidthSum(images_list, MinHeight, Len(images_list))

\* C8: matrix_width is the size of the first axis and 0 without axes,
\* matrix_height the size of the second axis and 1 with fewer than two
\* axes, matrix_depth the size of the third axis and 0 with fewer than
\* three; so (4,) measures 4, 1, 0 and (3, 8, 4) measures 3, 8, 4.
C8_AccessorsTotal ==
    probe # NoProbe =>
        /\ probe.width = IF Len(probe.shape) = 0 THEN 0 ELSE probe.shape[1]
        /\ probe.height = IF Len(probe.shape) < 2 THEN 1 ELSE probe.shape[2]
        /\ probe.depth = IF Len(probe.shape) < 3 THEN 0 ELSE probe.shape[3]
        /\ probe.shape = <<4>> =>
              probe.width = 4 /\ probe.height = 1 /\ probe.depth = 0
        /\ probe.shape = <<3, 8, 4>> =>
              probe.width = 3 /\ probe.height = 8 /\ probe.depth = 4

C8_Witness ==
    /\ probe.shape = <<4>>
    /\ probe.width = 4 /\ probe.height = 1 /\ probe.depth = 0

\* the concatenation operations
ConcatOps ==
    {"horizontal_and_cut_larger", "vertical_and_cut_larger",
     "horizontal_and_fill_empty", "vertical_and_fill_empty",
     "horizontal_and_resize_down", "vertical_and_resize_down",
     "horizontal_and_resize_up", "vertical_and_resize_up"}

\* C9: every concatenation operation called with an empty list raises
\* ValueError and returns neither a buffer nor a list.
C9_EmptyListRaises ==
    (result.op \in ConcatOps /\ images_list = <<>>) =>
        /\ result.kind = "error"
        /\ result.exc = "ValueError"
        /\ result.bufs = <<>>

C9_Witness ==
    /\ result.op = "horizontal_and_fill_empty"
    /\ images_list = <<>>
    /\ result.exc = "ValueError"

\* C10: whether the stopwatch was running or stopped, get_time,
\* get_readable_time and stop raise ValueError with the unit string in the
\* message for a unit outside the five recognized ones, and return a
\* value without raising for each of the five.
C10_UnitValidation ==
    ret.op \in {"get_time", "get_readable_time", "stop"} =>
        IF ret.units \in {"minutes", "seconds", "milliseconds",
                          "microseconds", "nanoseconds"}
        THEN ret.out.kind \in {"int", "float", "str"}
        ELSE /\ ret.out.kind = "ValueError"
             /\ \E k \in 1..Len(ret.out.text) : ret.out.text[k] = ret.units

C10_Witness ==
    /\ ret.op = "get_time"
    /\ ret.units = "parsecs"
    /\ ~ret.was_stopped
    /\ ret.out.kind = "ValueError"
    /\ ret.out.text[2] = "parsecs"
    /\ stop_time # None

\* C11: no concatenation operation mutates an input buffer: across every
\* call of a cut, fill, resize-down or resize-up operation, returning or
\* raising, each buffer of the list keeps its shape and its values.
C11_InputsNotMutated ==
    [][result'.op \in ConcatOps => images_list' = images_list]_vars

\* a fill operation has written canvases that differ from their inputs
C11_Witness ==
    /\ result.op = "horizontal_and_fill_empty"
    /\ result.kind = "list"
    /\ Len(images_list) = 2
    /\ \E i \in ListIndex :
          /\ result.bufs[i].shape # images_list[i].shape
          /\ \E ix \in Indices(result.bufs[i].shape) :
                result.bufs[i].data[ix] = ColorAt(result.color, ix)
                    /\ ix \notin DOMAIN images_list[i].data

\* the operations that resize: resize-down, resize-up and cut-larger
ResizeOps ==
    {"horizontal_and_cut_larger", "vertical_and_cut_larger",
     "horizontal_and_resize_down", "vertical_and_resize_down",
     "horizontal_and_resize_up", "vertical_and_resize_up"}

\* C12 as claimed: on a non-empty list of buffers of positive width and
\* height (and one channel depth) the resize of the resize-down, resize-up
\* and cut-larger operations never yields a zero dimension, so the
\* operation returns a buffer, of width > 0 and height > 0.
C12_ResizeNeverZeroClaim ==
    (result.op \in ResizeOps /\ EqualDepth) =>
        /\ result.kind = "buffer"
        /\ Width(result.bufs[1]) > 0
        /\ Height(result.bufs[1]) > 0

\* C12 as amended: every buffer a concatenation operation returns has
\* width > 0 and height > 0; where the truncated new size of a resize is
\* zero the operation raises cv2.error and returns no buffer.
C12_ReturnedBuffersPositive ==
    result.op \in ConcatOps =>
        /\ \A i \in 1..Len(result.bufs) :
              Width(result.bufs[i]) > 0 /\ Height(result.bufs[i]) > 0
        /\ (result.op \in ResizeOps /\ EqualDepth /\ result.kind # "buffer")
              => (result.kind = "error" /\ result.exc = "cv2.error"
                    /\ result.bufs = <<>>)

\* a resize that changed the size of its input and returned a buffer
C12_Witness ==
    /\ result.op = "horizontal_and_resize_up"
    /\ result.kind = "buffer"
    /\ Len(images_list) = 2
    /\ Width(result.bufs[1]) # WidthSum(images_list, 2)
    /\ Width(result.bufs[1]) > 0 /\ Height(result.bufs[1]) > 0

\* the stopwatch is Running while its stop time is not set, else Stopped
Running == NotSet(stop_time)
Stopped == ~NotSet(stop_time)

\* C13: the stopwatch is a two-state machine, Running after construction
\* or start(), Stopped after quiet_stop() or stop().  get_time on a Running
\* instance records the clock as stop time and leaves it Stopped; get_time
\* on a Stopped instance changes neither start nor stop time, so repeated
\* get_time("nanoseconds") keep returning stop_time - start_time; start()
\* from any state gives Running with the stop time cleared; each stop()
\* overwrites the stop time with the latest clock value.
C13_StopwatchMachine ==
    /\ Running
    /\ [][/\ ret'.op = "start" =>
                /\ stop_time' = None
                /\ start_time' = clock'
          /\ ret'.op \in {"quiet_stop", "stop"} =>
                /\ stop_time' = clock' /\ clock' >= clock
                /\ stop_time' # None
                /\ start_time' = start_time
          /\ (ret'.op = "get_time" /\ Running) =>
                /\ stop_time' = clock' /\ clock' >= clock
                /\ stop_time' # None
                /\ start_time' = start_time
          /\ (ret'.op = "get_time" /\ Stopped) =>
                /\ stop_time' = stop_time
                /\ start_time' = start_time
                /\ ret'.units = "nanoseconds" =>
                      /\ ret'.out.kind = "int"
                      /\ ret'.out.ns = stop_time - start_time
         ]_vars

\* get_time("nanoseconds") answered by an instance stopped earlier
C13_Witness ==
    /\ ret.op = "get_time"
    /\ ret.was_stopped
    /\ ret.units = "nanoseconds"
    /\ ret.out.ns = stop_time - start_time
    /\ ret.out.ns > 0

\* C14: a failing query has a side effect.  get_time, get_readable_time or
\* stop with an unrecognized unit on a Running stopwatch records the stop
\* time before the unit is checked: after the ValueError the stopwatch is
\* Stopped with the start time as it was and stop_time >= start_time, and
\* a following get_time with a valid unit returns the time up to the
\* failed call, not up to itself.
C14_FailedQueryStops ==
    [][/\ (/\ Running
           /\ ret'.op \in {"get_time", "get_readable_time", "stop"}
           /\ ret'.out.kind = "ValueError") =>
              /\ stop_time' # None /\ stop_time' # 0
              /\ stop_time' = clock'
              /\ start_time' = start_time
              /\ stop_time' >= start_time'
       /\ (/\ ret.out.kind = "ValueError"
           /\ ret'.op = "get_time"
           /\ ret'.units \in KnownUnits) =>
              /\ ret'.out.ns = stop_time - start_time
              /\ stop_time' = stop_time
      ]_vars

\* a readable-time query that failed on a Running stopwatch and stopped it
C14_Witness ==
    /\ ret.op = "get_readable_time"
    /\ ret.out.kind = "ValueError"
    /\ ~ret.was_stopped
    /\ stop_time # None
    /\ stop_time > start_time

====
